---------------------------- MODULE Spec2Model ----------------------------
(***************************************************************************)
(* Model of the pose-filtering program "ArUco Maker/medir_pos_xyz.py":     *)
(* start-up, the frame loop (marker selection, outlier rejection, moving   *)
(* average, timed logging) and the append-only CSV log that outlives the   *)
(* process; and of the capture loop and final computation of the           *)
(* calibration program "ArUco Maker/calibração.py", which produces the     *)
(* calibration file the first program needs.                               *)
(*                                                                         *)
(* Units: positions are whole centimetres, times are whole seconds, the    *)
(* values of a log row are hundredths (two decimal places).  The wall      *)
(* clock is taken to be non-decreasing.  A mean is kept as the exact       *)
(* fraction <<sum, length>>.                                               *)
(***************************************************************************)
EXTENDS Integers, Sequences, FiniteSets, TLC

VARIABLES
    pc,                      \* "parado" | "loop" | "fim": where the process is
    calibracao_existe,       \* the file ARQUIVO_CALIBRACAO is on disk
    log_existe,              \* the file NOME_ARQUIVO_LOG is on disk
    log,                     \* rows of NOME_ARQUIVO_LOG that reached the file
    pendente,                \* rows written through f but not flushed yet
    buffer_x,
    buffer_y,
    buffer_z,
    ultima_posicao_valida,
    proximo_tempo_gravacao,
    contador_pontos,
    filtrado,                \* <<xf, yf, zf>>, unbound before the first accepted frame
    relogio,                 \* the wall clock (time.time()), as last observed
    evento,                  \* what the last step of the process did
    aceitos,                 \* history: the positions accepted in this run, in order
    gravados,                \* history: the sample rows written in this run, in order
    execucoes,               \* history: how many times the process was started
    cap,                     \* the video source: "nenhuma" | "aberta" | "inacessivel" | "liberada"
    tela,                    \* the overlay of the image last given to cv2.imshow, if any
    tecla_lida,              \* the key cv2.waitKey returned in the last iteration, if any
    desde_aceite,            \* history: the positions rejected since the last accepted frame
    cal_pc,                  \* calibração.py: "parado" | "loop" | "fim"
    frame_count,             \* calibração.py
    ultimo_ret,              \* calibração.py
    capturas_salvas          \* calibração.py

\* the variables of calibração.py
varsCalibracao == <<cal_pc, frame_count, ultimo_ret, capturas_salvas>>

\* the variables of medir_pos_xyz.py, the log file and the clock
varsMedicao == <<pc, log_existe, log, pendente, buffer_x, buffer_y,
                 buffer_z, ultima_posicao_valida, proximo_tempo_gravacao,
                 contador_pontos, filtrado, relogio, evento, aceitos, gravados,
                 execucoes, cap, tela, tecla_lida, desde_aceite>>

vars == <<pc, calibracao_existe, log_existe, log, pendente, buffer_x, buffer_y,
          buffer_z, ultima_posicao_valida, proximo_tempo_gravacao,
          contador_pontos, filtrado, relogio, evento, aceitos, gravados,
          execucoes, cap, tela, tecla_lida, desde_aceite, cal_pc, frame_count,
          ultimo_ret, capturas_salvas>>

---------------------------------------------------------------------------
\* Program constants

ID_BASE == 0

ID_EFETUADOR == 1

LIMITE_SALTO == 20

INTERVALO_GRAVACAO == 1

\* deque(maxlen=10)
MAXLEN == 10

\* contador_pontos = 1
CONTADOR_INICIAL == 1

\* None, and a name not bound yet
Nenhum == <<>>

---------------------------------------------------------------------------
\* Bounds of the model

\* accepted frames per run, starts of the process, last clock value
MaxAceitos == 2

MaxExecucoes == 2

MaxTempo == 1

\* the same for the long single run that fills the smoothing windows
MaxAceitosJanela == 11

MaxTempoJanela == 0
\* frames the calibration program reads in one run
MaxQuadrosCalibracao == 16

\* marker ids the detector may report (2 stands for any other marker)
Marcadores == {0, 1, 2}

\* positions (cx, cy, cz) a frame may yield: the first two are exactly 20 cm
\* apart, the last two 21 cm, the first and the last 29 cm
Posicoes == {<<0, 0, 0>>, <<12, 16, 0>>, <<12, 16, 21>>}

\* for the long run: two positions within the limit that differ on every axis,
\* and one far from both
PosicoesJanela == {<<0, 0, 0>>, <<10, 12, 8>>, <<40, 50, 60>>}

Teclas == {"q", "outra"}
\* what cv2.waitKey returns in calibração.py: ESC (27), ord('s') or another key
TeclasCalibracao == {"esc", "s", "outra"}

\* calibração.py: the chessboard is searched every PERIODO_XADREZ-th frame
PERIODO_XADREZ == 5
\* calibração.py: the number of captures the final test compares with
LIMIAR_CAPTURAS == 10

---------------------------------------------------------------------------
\* Pure helpers

RECURSIVE Soma(_)
Soma(s) == IF s = <<>> THEN 0 ELSE Head(s) + Soma(Tail(s))

\* a mean that divides by the capacity instead of the number of entries
MediaPelaCapacidade(buf) == <<Soma(buf), MAXLEN>>

\* np.mean of a window, as the fraction <<sum, count>>
Media(buf) == <<Soma(buf), Len(buf)>>

\* an append that, on a full deque, drops the newest entry instead of the oldest
DequeAppendDescartaNovo(buf, v) ==
    IF Len(buf) = MAXLEN THEN Append(SubSeq(buf, 1, MAXLEN - 1), v) ELSE Append(buf, v)

\* deque.append on a deque with maxlen: a full deque drops its oldest entry
DequeAppend(buf, v) ==
    IF Len(buf) = MAXLEN THEN Append(Tail(buf), v) ELSE Append(buf, v)

\* round(m, 2) of a non-negative mean, in hundredths (ties go to the even digit)
Round2(m) ==
    LET n == 100 * m[1]
        q == n \div m[2]
        r == n % m[2]
    IN  IF 2 * r < m[2] THEN q
        ELSE IF 2 * r > m[2] THEN q + 1
        ELSE IF q % 2 = 0 THEN q ELSE q + 1

\* f"{xf:.1f}" of a non-negative mean, in tenths (ties go to the even digit)
Formata1(m) ==
    LET n == 10 * m[1]
        q == n \div m[2]
        r == n % m[2]
    IN  IF 2 * r < m[2] THEN q
        ELSE IF 2 * r > m[2] THEN q + 1
        ELSE IF q % 2 = 0 THEN q ELSE q + 1

\* the text cv2.putText draws: f"DH: {xf:.1f}, {yf:.1f}, {zf:.1f}"
Texto(m) == <<Formata1(m[1]), Formata1(m[2]), Formata1(m[3])>>

\* labels counted from zero
RotuloDesdeZero(c) == <<"P_", c - 1>>

\* f"P_{contador_pontos}"
Rotulo(c) == <<"P_", c>>

\* a norm taken over the x and y components only
NormaPlanaMaiorQue(a, b, lim) ==
    (a[1] - b[1]) * (a[1] - b[1]) + (a[2] - b[2]) * (a[2] - b[2]) > lim * lim

\* np.linalg.norm(a - b) > lim, for lim >= 0, without the square root
NormaMaiorQue(a, b, lim) ==
    (a[1] - b[1]) * (a[1] - b[1]) + (a[2] - b[2]) * (a[2] - b[2])
        + (a[3] - b[3]) * (a[3] - b[3]) > lim * lim

\* a check that also rejects a jump of exactly the limit (>= for >)
ValidarFrameEstrito(pos_atual, ultima) ==
    ~ (ultima # Nenhum
         /\ (pos_atual[1] - ultima[1]) * (pos_atual[1] - ultima[1])
              + (pos_atual[2] - ultima[2]) * (pos_atual[2] - ultima[2])
              + (pos_atual[3] - ultima[3]) * (pos_atual[3] - ultima[3])
              >= LIMITE_SALTO * LIMITE_SALTO)

\* validar_frame
ValidarFrame(pos_atual, ultima) ==
    ~ (ultima # Nenhum /\ NormaMaiorQue(pos_atual, ultima, LIMITE_SALTO))

\* ids is not None and ID_BASE in ids and ID_EFETUADOR in ids
AmbosVisiveis(ids) == ids # {} /\ ID_BASE \in ids /\ ID_EFETUADOR \in ids

\* a sample only strictly after the scheduled time (> for >=)
DeveGravarDepois(agora, proximo) == agora > proximo

\* time.time() >= proximo_tempo_gravacao
DeveGravar(agora, proximo) == agora >= proximo

\* a schedule on a fixed grid: the previous scheduled time plus the interval
NovoProximoTempoFixo(agora, proximo) == proximo + INTERVALO_GRAVACAO

\* proximo_tempo_gravacao = time.time() + INTERVALO_GRAVACAO
NovoProximoTempo(agora, proximo) == agora + INTERVALO_GRAVACAO

Cabecalho == [tipo |-> "cabecalho"]

Amostra(hora, c, m) ==
    [tipo |-> "amostra", hora |-> hora, id |-> Rotulo(c),
     x |-> Round2(m[1]), y |-> Round2(m[2]), z |-> Round2(m[3])]

Evento(tipo, pos, t, gravou) == [tipo |-> tipo, pos |-> pos, t |-> t, gravou |-> gravou]

---------------------------------------------------------------------------
Init ==
    /\ pc = "parado"
    /\ calibracao_existe \in BOOLEAN
    /\ log_existe = FALSE
    /\ log = <<>>
    /\ pendente = <<>>
    /\ buffer_x = <<>>
    /\ buffer_y = <<>>
    /\ buffer_z = <<>>
    /\ ultima_posicao_valida = Nenhum
    /\ proximo_tempo_gravacao = 0
    /\ contador_pontos = CONTADOR_INICIAL
    /\ filtrado = Nenhum
    /\ relogio = 0
    /\ evento = Evento("nenhum", Nenhum, 0, FALSE)
    /\ aceitos = <<>>
    /\ gravados = <<>>
    /\ execucoes = 0
    /\ cap = "nenhuma"
    /\ tela = Nenhum
    /\ tecla_lida = Nenhum
    /\ desde_aceite = {}
    /\ cal_pc = "parado"
    /\ frame_count = 0
    /\ ultimo_ret = FALSE
    /\ capturas_salvas = 0

\* a start without the calibration file that goes on to open the video source
\* and the log before it stops
SemCalibracaoAbreTudo(t0) ==
    /\ pc' = "fim"
    /\ evento' = Evento("sem_calibracao", Nenhum, t0, FALSE)
    /\ proximo_tempo_gravacao' = 0
    /\ cap' = "liberada"
    /\ log_existe' = TRUE
    /\ UNCHANGED pendente

\* if not os.path.exists(ARQUIVO_CALIBRACAO): print("ERRO: ..."); exit()
SemCalibracao(t0) ==
    /\ pc' = "fim"
    /\ evento' = Evento("sem_calibracao", Nenhum, t0, FALSE)
    /\ proximo_tempo_gravacao' = 0
    /\ cap' = "nenhuma"
    /\ UNCHANGED <<log_existe, pendente>>

\* The process is started: the module's top level down to the loop's entry.
Iniciar(maxExecucoes, maxTempo) ==
    /\ pc \in {"parado", "fim"}
    /\ execucoes < maxExecucoes
    /\ execucoes' = execucoes + 1
    /\ buffer_x' = <<>>
    /\ buffer_y' = <<>>
    /\ buffer_z' = <<>>
    /\ ultima_posicao_valida' = Nenhum
    /\ contador_pontos' = CONTADOR_INICIAL
    /\ filtrado' = Nenhum
    /\ aceitos' = <<>>
    /\ gravados' = <<>>
    /\ tela' = Nenhum
    /\ tecla_lida' = Nenhum
    /\ desde_aceite' = {}
    /\ UNCHANGED <<calibracao_existe, log>>
    /\ UNCHANGED varsCalibracao
    /\ \E t0 \in relogio .. maxTempo, acessivel \in BOOLEAN :
        /\ relogio' = t0
        /\ IF ~ calibracao_existe
           THEN SemCalibracao(t0)
           ELSE /\ pc' = "loop"
                /\ evento' = Evento("inicio", Nenhum, t0, FALSE)
                /\ proximo_tempo_gravacao' = t0
                \* cv2.VideoCapture(FONTE_VIDEO) returns an object either way
                /\ cap' = IF acessivel THEN "aberta" ELSE "inacessivel"
                /\ log_existe' = TRUE
                /\ pendente' = IF Len(log) = 0 THEN <<Cabecalho>> ELSE <<>>

\* Leaving the with block closes f, which flushes what is pending.
Fechar(arquivo, pend) == arquivo \o pend

\* a failed read after which the loop goes on to the next frame
FalhaLeituraContinua ==
    /\ pc' = "loop"
    /\ evento' = Evento("falha_leitura", Nenhum, relogio, FALSE)
    /\ tecla_lida' = Nenhum
    /\ UNCHANGED <<calibracao_existe, log_existe, log, pendente, buffer_x,
                   buffer_y, buffer_z, ultima_posicao_valida,
                   proximo_tempo_gravacao, contador_pontos, filtrado, relogio,
                   aceitos, gravados, execucoes, tela, desde_aceite, cap>>

\* if not ret: break
FalhaLeitura ==
    /\ pc' = "fim"
    /\ log' = Fechar(log, pendente)
    /\ pendente' = <<>>
    /\ evento' = Evento("falha_leitura", Nenhum, relogio, FALSE)
    /\ cap' = "liberada"
    /\ tecla_lida' = Nenhum
    /\ UNCHANGED <<calibracao_existe, log_existe, buffer_x, buffer_y, buffer_z,
                   ultima_posicao_valida, proximo_tempo_gravacao, contador_pontos,
                   filtrado, relogio, aceitos, gravados, execucoes, tela,
                   desde_aceite>>

\* if cv2.waitKey(1) == ord('q'): break, after a frame that wrote nothing
FimDaIteracao(tecla) ==
    /\ pc' = IF tecla = "q" THEN "fim" ELSE "loop"
    /\ cap' = IF tecla = "q" THEN "liberada" ELSE cap
    /\ tecla_lida' = tecla
    /\ log' = IF tecla = "q" THEN Fechar(log, pendente) ELSE log
    /\ pendente' = IF tecla = "q" THEN <<>> ELSE pendente

\* a skipped frame that nevertheless advances the schedule
SemMarcadoresAvancaAgenda(t1, tecla) ==
    /\ FimDaIteracao(tecla)
    /\ relogio' = t1
    /\ evento' = Evento("ausente", Nenhum, t1, FALSE)
    /\ proximo_tempo_gravacao' = t1 + INTERVALO_GRAVACAO
    /\ tela' = Nenhum
    /\ UNCHANGED <<calibracao_existe, log_existe, buffer_x, buffer_y, buffer_z,
                   ultima_posicao_valida, contador_pontos,
                   filtrado, aceitos, gravados, execucoes, desde_aceite>>

\* a skipped frame on which the overlay text is drawn all the same
SemMarcadoresMostraTexto(t1, tecla) ==
    /\ FimDaIteracao(tecla)
    /\ relogio' = t1
    /\ evento' = Evento("ausente", Nenhum, t1, FALSE)
    /\ tela' = <<0, 0, 0>>
    /\ UNCHANGED <<calibracao_existe, log_existe, buffer_x, buffer_y, buffer_z,
                   ultima_posicao_valida, proximo_tempo_gravacao, contador_pontos,
                   filtrado, aceitos, gravados, execucoes, desde_aceite>>

\* The base and the effector marker are not both in the frame.
SemMarcadores(t1, tecla) ==
    /\ FimDaIteracao(tecla)
    /\ relogio' = t1
    /\ evento' = Evento("ausente", Nenhum, t1, FALSE)
    \* cv2.imshow of the frame as read: nothing was drawn on it
    /\ tela' = Nenhum
    /\ UNCHANGED <<calibracao_existe, log_existe, buffer_x, buffer_y, buffer_z,
                   ultima_posicao_valida, proximo_tempo_gravacao, contador_pontos,
                   filtrado, aceitos, gravados, execucoes, desde_aceite>>

\* a rejected frame that is nevertheless remembered as the last position
RejeitadoLembrado(pos_atual, t1, tecla) ==
    /\ FimDaIteracao(tecla)
    /\ relogio' = t1
    /\ evento' = Evento("rejeitado", pos_atual, t1, FALSE)
    /\ ultima_posicao_valida' = pos_atual
    /\ tela' = Nenhum
    /\ desde_aceite' = desde_aceite \cup {pos_atual}
    /\ UNCHANGED <<calibracao_existe, log_existe, buffer_x, buffer_y, buffer_z,
                   proximo_tempo_gravacao, contador_pontos,
                   filtrado, aceitos, gravados, execucoes>>

\* validar_frame = False
Rejeitado(pos_atual, t1, tecla) ==
    /\ FimDaIteracao(tecla)
    /\ relogio' = t1
    /\ evento' = Evento("rejeitado", pos_atual, t1, FALSE)
    \* cv2.imshow of the frame as read: nothing was drawn on it
    /\ tela' = Nenhum
    /\ desde_aceite' = desde_aceite \cup {pos_atual}
    /\ UNCHANGED <<calibracao_existe, log_existe, buffer_x, buffer_y, buffer_z,
                   ultima_posicao_valida, proximo_tempo_gravacao, contador_pontos,
                   filtrado, aceitos, gravados, execucoes>>

\* if validar_frame: ... ; t1, ts, t2 are the clock at lines 110, 111 and 118
Aceito(pos_atual, t1, tecla, maxTempo) ==
    LET bx == DequeAppend(buffer_x, pos_atual[1])
        by == DequeAppend(buffer_y, pos_atual[2])
        bz == DequeAppend(buffer_z, pos_atual[3])
        m == <<Media(bx), Media(by), Media(bz)>>
        grava == DeveGravar(t1, proximo_tempo_gravacao)
    IN  /\ ultima_posicao_valida' = pos_atual
        /\ buffer_x' = bx
        /\ buffer_y' = by
        /\ buffer_z' = bz
        /\ filtrado' = m
        /\ pc' = IF tecla = "q" THEN "fim" ELSE "loop"
        /\ cap' = IF tecla = "q" THEN "liberada" ELSE cap
        /\ tecla_lida' = tecla
        /\ evento' = Evento("aceito", pos_atual, t1, grava)
        /\ aceitos' = Append(aceitos, pos_atual)
        /\ desde_aceite' = {}
        \* cv2.putText(frame, f"DH: ..."), then cv2.imshow
        /\ tela' = Texto(m)
        /\ UNCHANGED <<calibracao_existe, log_existe, execucoes>>
        /\ IF grava
           THEN \E ts \in t1 .. maxTempo :
                  \E t2 \in ts .. maxTempo :
                    LET linha == Amostra(ts, contador_pontos, m)
                        \* writer.writerow(...); f.flush()
                        arquivo == log \o pendente \o <<linha>>
                    IN  /\ log' = IF tecla = "q" THEN Fechar(arquivo, <<>>) ELSE arquivo
                        /\ pendente' = <<>>
                        /\ gravados' = Append(gravados, linha)
                        /\ contador_pontos' = contador_pontos + 1
                        /\ proximo_tempo_gravacao' =
                              NovoProximoTempo(t2, proximo_tempo_gravacao)
                        /\ relogio' = t2
           ELSE /\ log' = IF tecla = "q" THEN Fechar(log, pendente) ELSE log
                /\ pendente' = IF tecla = "q" THEN <<>> ELSE pendente
                /\ relogio' = t1
                /\ UNCHANGED <<gravados, contador_pontos, proximo_tempo_gravacao>>

\* One pass of the while True loop; the frame (ret, ids, pos_atual), the key
\* and the clock are the inputs.  A run is cut after maxAceitos accepted frames.
Iteracao(posicoes, maxAceitos, maxTempo) ==
    /\ pc = "loop"
    /\ UNCHANGED varsCalibracao
    \* cap.read() of a source that could not be opened returns ret = False
    /\ \E ret \in (IF cap = "aberta" THEN BOOLEAN ELSE {FALSE}) :
         IF ~ ret THEN FalhaLeitura
         ELSE \E ids \in SUBSET Marcadores, tecla \in Teclas,
                 t1 \in relogio .. maxTempo :
                IF ~ AmbosVisiveis(ids) THEN SemMarcadores(t1, tecla)
                ELSE \E pos_atual \in posicoes :
                       IF ~ ValidarFrame(pos_atual, ultima_posicao_valida)
                       THEN Rejeitado(pos_atual, t1, tecla)
                       ELSE /\ Len(aceitos) < maxAceitos
                            /\ Aceito(pos_atual, t1, tecla, maxTempo)

Next ==
    \/ Iniciar(MaxExecucoes, MaxTempo)
    \/ Iteracao(Posicoes, MaxAceitos, MaxTempo)

Spec == Init /\ [][Next]_vars

NextJanela ==
    \/ Iniciar(1, MaxTempoJanela)
    \/ Iteracao(PosicoesJanela, MaxAceitosJanela, MaxTempoJanela)

SpecJanela == Init /\ [][NextJanela]_vars

\* The process is killed (or the machine loses power) while the log is open:
\* what was written through f and not flushed never reaches the file.
Interrompido ==
    /\ pc = "loop"
    /\ pc' = "fim"
    /\ pendente' = <<>>
    /\ evento' = Evento("interrompido", Nenhum, relogio, FALSE)
    /\ cap' = "liberada"
    /\ tecla_lida' = Nenhum
    /\ UNCHANGED <<calibracao_existe, log_existe, log, buffer_x, buffer_y,
                   buffer_z, ultima_posicao_valida, proximo_tempo_gravacao,
                   contador_pontos, filtrado, relogio, aceitos, gravados,
                   execucoes, tela, desde_aceite>>
    /\ UNCHANGED varsCalibracao

\* runs of the measuring program that may also be killed
NextFalhas ==
    \/ Iniciar(MaxExecucoes, MaxTempo)
    \/ Iteracao(Posicoes, MaxAceitos, MaxTempo)
    \/ Interrompido

SpecFalhas == Init /\ [][NextFalhas]_vars

\* A finite frame stream: the read that finds the stream exhausted happens.
FimDoFluxo == pc = "loop" /\ FalhaLeitura /\ UNCHANGED varsCalibracao

SpecFinito == Spec /\ WF_vars(FimDoFluxo)

---------------------------------------------------------------------------
\* calibração.py

\* frame_count = 0 ... capturas_salvas = 0, then while True
IniciarCalibracao ==
    /\ cal_pc = "parado"
    /\ cal_pc' = "loop"
    /\ frame_count' = 0
    /\ ultimo_ret' = FALSE
    /\ capturas_salvas' = 0
    /\ UNCHANGED calibracao_existe
    /\ UNCHANGED varsMedicao

\* if capturas_salvas > 10:
FotosSuficientes(capturas) == capturas > LIMIAR_CAPTURAS

\* what follows the loop: the final computation, which saves the file or
\* prints "O arquivo não foi gerado"
CalculoFinal(capturas) ==
    IF FotosSuficientes(capturas)
    THEN cal_pc' = "salvo" /\ calibracao_existe' = TRUE
    ELSE cal_pc' = "poucas_fotos" /\ UNCHANGED calibracao_existe

\* One pass of the capture loop; the frame (ret, ret_chess), the key and
\* the visibility of the window are the inputs.
IteracaoCalibracao(maxQuadros) ==
    /\ cal_pc = "loop"
    /\ UNCHANGED varsMedicao
    /\ \E ret \in BOOLEAN :
         IF ~ ret
         THEN /\ CalculoFinal(capturas_salvas)
              /\ UNCHANGED <<frame_count, ultimo_ret, capturas_salvas>>
         ELSE /\ frame_count < maxQuadros
              /\ frame_count' = frame_count + 1
              /\ \E ret_chess \in BOOLEAN :
                    ultimo_ret' = IF frame_count' % PERIODO_XADREZ = 0
                                  THEN ret_chess ELSE ultimo_ret
              /\ \E k \in TeclasCalibracao, visivel \in BOOLEAN :
                    IF k = "esc" \/ ~ visivel
                    THEN /\ CalculoFinal(capturas_salvas)
                         /\ UNCHANGED capturas_salvas
                    ELSE /\ capturas_salvas' =
                              IF k = "s" /\ ultimo_ret'
                              THEN capturas_salvas + 1 ELSE capturas_salvas
                         /\ UNCHANGED <<cal_pc, calibracao_existe>>

NextCalibracao ==
    \/ IniciarCalibracao
    \/ IteracaoCalibracao(MaxQuadrosCalibracao)

SpecCalibracao == Init /\ [][NextCalibracao]_vars

---------------------------------------------------------------------------
\* What the claims are stated over

Min(a, b) == IF a < b THEN a ELSE b

\* the last n accepted positions of this run, oldest first
UltimosAceitos(n) == SubSeq(aceitos, Len(aceitos) - n + 1, Len(aceitos))

\* the sum of coordinate eixo over a sequence of positions, by index
RECURSIVE SomaEixo(_, _, _)
SomaEixo(ps, eixo, i) == IF i = 0 THEN 0 ELSE ps[i][eixo] + SomaEixo(ps, eixo, i - 1)

\* coordinate eixo of each position of a sequence, in order
Eixo(ps, eixo) == [i \in 1 .. Len(ps) |-> ps[i][eixo]]

Janelas == <<buffer_x, buffer_y, buffer_z>>

\* C1: once a frame has been accepted, the filtered output of each axis is the
\* arithmetic mean of the last min(10, count) accepted raw values of that axis,
\* count being the number of frames accepted so far in the run (rejected and
\* marker-absent frames are not among them); before that there is no output.
C1_MediaDosUltimosAceitos ==
    LET n == Min(10, Len(aceitos))
    IN  IF aceitos = <<>> THEN filtrado = Nenhum
        ELSE /\ filtrado # Nenhum
             /\ \A eixo \in 1 .. 3 :
                  \* filtrado[eixo] = <<s, k>> is the fraction s / k
                  /\ filtrado[eixo][2] > 0
                  /\ filtrado[eixo][1] * n =
                        SomaEixo(UltimosAceitos(n), eixo, n) * filtrado[eixo][2]

\* C1 witness: an accepted frame arrived at full windows, and the mean of the
\* last 10 values differs from the mean of all the accepted values
C1_Witness ==
    /\ evento.tipo = "aceito"
    /\ Len(aceitos) > 10
    /\ filtrado # Nenhum
    /\ filtrado[1][1] * Len(aceitos) # SomaEixo(aceitos, 1, Len(aceitos)) * filtrado[1][2]

\* C2: each smoothing window holds at most 10 entries, the three have the same
\* length min(10, accepted frames), their content is the most recent accepted
\* values in acceptance order, and a full window that receives a value loses
\* its oldest entry and only that one.
C2_JanelasFIFO ==
    /\ [](\A eixo \in 1 .. 3 :
            /\ Len(Janelas[eixo]) <= 10
            /\ Len(Janelas[eixo]) = Min(10, Len(aceitos))
            /\ Janelas[eixo] = Eixo(UltimosAceitos(Min(10, Len(aceitos))), eixo))
    /\ [][(aceitos' # aceitos /\ aceitos' # <<>> /\ Len(buffer_x) = 10)
            => /\ Len(buffer_x') = 10 /\ Len(buffer_y') = 10 /\ Len(buffer_z') = 10
               /\ \A i \in 1 .. 9 :
                    /\ buffer_x'[i] = buffer_x[i + 1]
                    /\ buffer_y'[i] = buffer_y[i + 1]
                    /\ buffer_z'[i] = buffer_z[i + 1]
               /\ buffer_x'[10] = aceitos'[Len(aceitos')][1]
               /\ buffer_y'[10] = aceitos'[Len(aceitos')][2]
               /\ buffer_z'[10] = aceitos'[Len(aceitos')][3]]_vars

\* C2 witness: a full window has received a value different from the one evicted
C2_Witness ==
    /\ Len(aceitos) = 11
    /\ Len(buffer_x) = 10
    /\ aceitos[1] # aceitos[2]
    /\ aceitos[11] # aceitos[1]
    /\ buffer_x[1] = aceitos[2][1]

\* every row written through f so far, in the file or still pending
Escritas == log \o pendente

\* a step of the frame loop wrote no row
NadaEscrito == Escritas' = Escritas /\ gravados' = gravados

\* a step of the frame loop wrote exactly one row, a sample
UmaAmostraEscrita ==
    /\ Len(Escritas') = Len(Escritas) + 1
    /\ SubSeq(Escritas', 1, Len(Escritas)) = Escritas
    /\ Escritas'[Len(Escritas')].tipo = "amostra"
    /\ gravados' = Append(gravados, Escritas'[Len(Escritas')])

FilterStateInalterado ==
    UNCHANGED <<ultima_posicao_valida, buffer_x, buffer_y, buffer_z,
                proximo_tempo_gravacao, contador_pontos>>

\* the squared Euclidean distance of two positions
DistQuadrada(a, b) ==
    (a[1] - b[1]) * (a[1] - b[1]) + (a[2] - b[2]) * (a[2] - b[2])
        + (a[3] - b[3]) * (a[3] - b[3])

\* a step of the loop on a frame for which a position was computed
QuadroComPosicao == pc = "loop" /\ evento'.tipo \in {"aceito", "rejeitado"}

\* C3: a frame with a computed position is rejected exactly when a last
\* accepted position exists and lies strictly more than 20 cm away; the first
\* position of a run and a jump of exactly 20 cm are accepted.
C3_RejeitaSomenteSaltoMaior ==
    [][QuadroComPosicao =>
         LET p == evento'.pos
             u == ultima_posicao_valida
             longe == u # Nenhum /\ DistQuadrada(p, u) > 20 * 20
         IN  /\ longe => /\ evento'.tipo = "rejeitado"
                         /\ aceitos' = aceitos
                         /\ ultima_posicao_valida' = u
             /\ ~ longe => /\ evento'.tipo = "aceito"
                           /\ aceitos' = Append(aceitos, p)
                           /\ ultima_posicao_valida' = p]_vars

\* C3 witness: a position exactly 20 cm from the last accepted one was accepted
C3_Witness ==
    /\ evento.tipo = "aceito"
    /\ Len(aceitos) >= 2
    /\ DistQuadrada(aceitos[Len(aceitos)], aceitos[Len(aceitos) - 1]) = 20 * 20
    /\ ultima_posicao_valida = aceitos[Len(aceitos)]

\* C4: any two consecutively accepted positions of a run are at most 20 cm
\* apart, whatever frames were rejected or lacked markers between them.
C4_AceitosConsecutivosProximos ==
    \A i \in 1 .. Len(aceitos) - 1 :
        DistQuadrada(aceitos[i], aceitos[i + 1]) <= 20 * 20

\* C4 witness: two different positions were accepted one after the other, and
\* the frame that followed was rejected
C4_Witness ==
    /\ Len(aceitos) >= 2
    /\ aceitos[Len(aceitos)] # aceitos[Len(aceitos) - 1]
    /\ evento.tipo = "rejeitado"

\* C5: a frame rejected by the outlier check changes nothing: the last
\* accepted position, the three windows, the next sample time and the counter
\* are as before, and no row is written.
C5_RejeitadoNadaMuda ==
    [][(pc = "loop" /\ evento'.tipo = "rejeitado") =>
          /\ FilterStateInalterado
          /\ filtrado' = filtrado
          /\ NadaEscrito]_vars

\* C5 witness: a frame was rejected after a sample had been logged, at a time
\* when a sample was due
C5_Witness ==
    /\ evento.tipo = "rejeitado"
    /\ ultima_posicao_valida # Nenhum
    /\ gravados # <<>>
    /\ relogio >= proximo_tempo_gravacao

\* C6: within a run the counter is gapless: the k-th sample row of the run is
\* labelled P_k, the counter is one more than the rows logged, and it changes
\* only when a sample row is written, by exactly one.
C6_ContadorSemLacunas ==
    /\ [](pc # "parado" =>
            /\ contador_pontos = Len(gravados) + 1
            /\ \A k \in 1 .. Len(gravados) : gravados[k].id = <<"P_", k>>
            /\ Len(gravados) <= Len(log)
            /\ SubSeq(log, Len(log) - Len(gravados) + 1, Len(log)) = gravados)
    /\ [][pc = "loop" =>
            /\ contador_pontos' # contador_pontos =>
                 (contador_pontos' = contador_pontos + 1 /\ UmaAmostraEscrita)
            /\ Escritas' # Escritas =>
                 (contador_pontos' = contador_pontos + 1 /\ UmaAmostraEscrita)]_vars

\* C6 witness: two sample rows were logged in one run
C6_Witness ==
    /\ Len(gravados) = 2
    /\ contador_pontos = 3
    /\ log[Len(log)].id = <<"P_", 2>>

AmostrasNoArquivo == {i \in 1 .. Len(log) : log[i].tipo = "amostra"}

\* C7 (as claimed): no two sample rows of the log file carry the same label.
C7_RotulosDistintosNoArquivo ==
    \A i, j \in AmostrasNoArquivo : i # j => log[i].id # log[j].id

\* a step of the loop that emitted a sample
Emissao == pc = "loop" /\ gravados' # gravados

\* C8 (as claimed): an emission moves the next sample time to its previous
\* value plus the interval.
C8_AgendaEmGradeFixa ==
    [][Emissao => proximo_tempo_gravacao' = proximo_tempo_gravacao + 1]_vars

\* C8 (amended): an emission sets the next sample time to the clock read after
\* the row is written plus the interval; that is never less than the previous
\* value plus the interval, nor than the emitting frame's time plus the interval.
C8_AgendaPeloRelogio ==
    [][Emissao =>
          /\ proximo_tempo_gravacao' = relogio' + 1
          /\ proximo_tempo_gravacao' >= proximo_tempo_gravacao + 1
          /\ proximo_tempo_gravacao' >= evento'.t + 1]_vars

\* C8 witness: a sample was emitted and the clock moved on between the check
\* of the schedule and the rescheduling
C8_Witness ==
    /\ evento.tipo = "aceito"
    /\ evento.gravou
    /\ proximo_tempo_gravacao > evento.t + 1

\* C9 (as claimed): on a frame with both markers visible, once a position has
\* been accepted in the run, a sample is emitted exactly when the time is at
\* or after the next sample time; no frame emits more than one.
C9_AmostraEmTodoQuadroComMarcadores ==
    [][pc = "loop" =>
          /\ (QuadroComPosicao /\ aceitos' # <<>>
                /\ evento'.t >= proximo_tempo_gravacao) => UmaAmostraEscrita
          /\ (QuadroComPosicao /\ evento'.t < proximo_tempo_gravacao) => NadaEscrito
          /\ NadaEscrito \/ UmaAmostraEscrita]_vars

\* C9 (amended): on an accepted frame a sample is emitted exactly when the
\* time is at or after the next sample time; a rejected frame, a frame without
\* both markers and a failed read emit none; no frame emits more than one.
C9_AmostraEmQuadroAceito ==
    [][pc = "loop" =>
          /\ (evento'.tipo = "aceito" /\ evento'.t >= proximo_tempo_gravacao)
                => (UmaAmostraEscrita /\ evento'.gravou)
          /\ (evento'.tipo = "aceito" /\ evento'.t < proximo_tempo_gravacao)
                => (NadaEscrito /\ ~ evento'.gravou)
          /\ evento'.tipo # "aceito" => NadaEscrito
          /\ NadaEscrito \/ UmaAmostraEscrita]_vars

\* C9 witness: a sample was emitted by a frame that arrived exactly at the
\* scheduled time, after an earlier sample of the run
C9_Witness ==
    /\ evento.tipo = "aceito"
    /\ evento.gravou
    /\ Len(gravados) = 2
    /\ evento.t = gravados[1].hora + 1

\* C10: a frame without both markers computes no position, attempts no
\* sample and leaves the last accepted position, the windows, the next sample
\* time and the counter as they were; the sample that is due is emitted by the
\* first accepted frame that arrives at or after the scheduled time.
C10_QuadroSemMarcadores ==
    [][pc = "loop" =>
          /\ evento'.tipo = "ausente" =>
                /\ evento'.pos = Nenhum
                /\ aceitos' = aceitos
                /\ FilterStateInalterado
                /\ NadaEscrito
          /\ (evento.tipo = "ausente" /\ evento'.tipo = "aceito") =>
                IF evento'.t >= proximo_tempo_gravacao
                THEN /\ UmaAmostraEscrita
                     /\ Escritas'[Len(Escritas')].id = <<"P_", contador_pontos>>
                ELSE /\ NadaEscrito
                     /\ proximo_tempo_gravacao' = proximo_tempo_gravacao]_vars

\* C10 witness: a frame without both markers arrived when a sample was due
C10_Witness ==
    /\ pc = "loop"
    /\ evento.tipo = "ausente"
    /\ aceitos # <<>>
    /\ evento.t >= proximo_tempo_gravacao

\* C11 (as claimed, for a filter that is warm once its window is full): while
\* fewer frames than the window holds have been accepted in the run, no sample
\* row has been logged and no filtered coordinate is displayed.
C11_SemSaidaAntesDaJanelaCheia ==
    (pc # "parado" /\ Len(aceitos) < MAXLEN) => (gravados = <<>> /\ tela = Nenhum)

\* C11 (amended): the minimum is one accepted frame.  While no frame has been
\* accepted in the run there is no filtered value, nothing is displayed over
\* the image and no sample row has been written; the frame accepted first is
\* displayed and logged at once.
C11_SemSaidaAntesDoPrimeiroAceite ==
    /\ []((pc # "parado" /\ aceitos = <<>>) =>
            /\ filtrado = Nenhum
            /\ tela = Nenhum
            /\ gravados = <<>>
            /\ contador_pontos = CONTADOR_INICIAL
            /\ \A i \in 1 .. Len(pendente) : pendente[i].tipo # "amostra")
    /\ [][(pc = "loop" /\ aceitos' = <<>>) => NadaEscrito]_vars
    /\ [][(pc = "loop" /\ aceitos = <<>> /\ aceitos' # <<>>) =>
            /\ tela' = <<10 * aceitos'[1][1], 10 * aceitos'[1][2], 10 * aceitos'[1][3]>>
            /\ UmaAmostraEscrita]_vars

\* C11 witness: a run ended without an accepted frame, after a frame without
\* both markers that arrived when a sample was due
C11_Witness ==
    /\ pc = "fim"
    /\ evento.tipo = "ausente"
    /\ aceitos = <<>>
    /\ relogio >= proximo_tempo_gravacao
    /\ gravados = <<>>

\* C12: started without the calibration file, the program reports the error
\* and ends at once: it never enters the frame loop, it neither opens, creates
\* nor writes the log file, and it does not open the video source.
C12_SemCalibracaoTerminaAntes ==
    /\ [][(execucoes' # execucoes /\ ~ calibracao_existe) =>
            /\ pc' = "fim"
            /\ evento'.tipo = "sem_calibracao"
            /\ cap' = "nenhuma"
            /\ UNCHANGED <<log_existe, log, pendente>>]_vars
    /\ [](evento.tipo = "sem_calibracao" =>
            /\ pc = "fim"
            /\ cap = "nenhuma"
            /\ ~ log_existe
            /\ Escritas = <<>>
            /\ aceitos = <<>>
            /\ filtrado = Nenhum)
    /\ [](~ calibracao_existe => pc # "loop")

\* C12 witness: the program was started twice without the calibration file
\* and there is still no log file
C12_Witness ==
    /\ ~ calibracao_existe
    /\ execucoes = 2
    /\ evento.tipo = "sem_calibracao"
    /\ pc = "fim"
    /\ ~ log_existe

\* C13: when the video source cannot be reached at startup, the process ends
\* before it enters the frame loop: the log file is not opened and no header
\* row is written.
C13_FonteInacessivelTerminaAntes ==
    cap = "inacessivel" => (pc # "loop" /\ pendente = <<>>)

\* the header rows among the rows written through f or already in the file
Cabecalhos(linhas) == {i \in 1 .. Len(linhas) : linhas[i] = Cabecalho}

\* C14: over any sequence of runs on the same log file, killed runs included,
\* the header row is written only by a run that finds no log file, it is the
\* first row and the only header, later runs append sample rows only, and no
\* row of the file is ever changed or removed.
C14_CabecalhoSomenteEmArquivoNovo ==
    /\ [][(execucoes' # execucoes /\ Cabecalhos(pendente') # {}) => ~ log_existe]_vars
    /\ [](Escritas # <<>> => Cabecalhos(Escritas) = {1})
    /\ [][Len(log') >= Len(log) /\ SubSeq(log', 1, Len(log)) = log]_vars

\* C15: every write is flushed at once: when an iteration of the loop ends,
\* every row written so far, the header included, is in the file, so that a
\* killed process never loses a row written in an earlier iteration.
C15_TudoDuravelAoFimDaIteracao ==
    /\ []((pc = "loop" /\ evento.tipo \in {"ausente", "rejeitado", "aceito"})
            => pendente = <<>>)
    /\ [][evento'.tipo = "interrompido" => (pendente = <<>> /\ log' = log)]_vars

\* C16: on a frame skipped because the two markers are not both visible, the
\* previous filtered output, if there is one, is still shown on the live
\* display, nothing is logged again and the windows are not updated.
C16_QuadroSaltadoMantemTexto ==
    [][(pc = "loop" /\ evento'.tipo = "ausente" /\ filtrado # Nenhum) =>
          /\ tela' = Texto(filtrado)
          /\ NadaEscrito
          /\ UNCHANGED <<buffer_x, buffer_y, buffer_z, filtrado>>]_vars

\* C17: the loop ends on the first failed read and on the exit key, which is
\* looked at once per iteration, at its end; it goes on only after a frame
\* that was read and a key other than the exit key.  A failed read processes
\* nothing: FilterState is unchanged and no row is written.  Once the loop has
\* ended nothing changes until the program is started again.  When the frame
\* stream is finite, a run that entered the loop terminates.
C17_LacoTermina ==
    /\ [][(pc = "loop" /\ evento'.tipo = "falha_leitura") =>
            /\ pc' = "fim"
            /\ FilterStateInalterado
            /\ UNCHANGED <<filtrado, tela, aceitos>>
            /\ NadaEscrito]_vars
    /\ [][(pc = "loop" /\ tecla_lida' = "q") => pc' = "fim"]_vars
    /\ [][(pc = "loop" /\ pc' = "loop") =>
            (tecla_lida' = "outra" /\ evento'.tipo # "falha_leitura")]_vars
    /\ [][pc = "fim" => (execucoes' = execucoes + 1 /\ log' = log)]_vars
    /\ [](pc = "fim" => (pendente = <<>> /\ cap \in {"nenhuma", "liberada"}))
    /\ (pc = "loop") ~> (pc = "fim")

\* C17 witness: a run that logged two samples ended on the exit key, pressed
\* during an iteration that accepted a frame
C17_Witness ==
    /\ pc = "fim"
    /\ tecla_lida = "q"
    /\ evento.tipo = "aceito"
    /\ Len(gravados) = 2
    /\ cap = "liberada"

\* C18: the calibration program generates the calibration file when at least
\* 10 captures were saved, and does not generate it only when fewer than 10
\* were saved.
C18_ArquivoComPeloMenosDezFotos ==
    cal_pc \in {"salvo", "poucas_fotos"} =>
        (cal_pc = "salvo" <=> capturas_salvas >= 10)

\* C19: after a frame was accepted at a position p, frames observed farther
\* than the threshold from p are all rejected, however many of them agree with
\* one another: p stays the last accepted position, every position rejected
\* since then lies more than 20 cm from it, and those frames log no sample.
C19_SemRecuperacaoLongeDoUltimoAceito ==
    /\ [](pc # "parado" =>
            /\ aceitos # <<>> => ultima_posicao_valida = aceitos[Len(aceitos)]
            /\ \A q \in desde_aceite :
                 /\ ultima_posicao_valida # Nenhum
                 /\ DistQuadrada(q, ultima_posicao_valida) > LIMITE_SALTO * LIMITE_SALTO)
    /\ [][(QuadroComPosicao /\ ultima_posicao_valida # Nenhum
             /\ DistQuadrada(evento'.pos, ultima_posicao_valida)
                  > LIMITE_SALTO * LIMITE_SALTO) =>
            /\ evento'.tipo = "rejeitado"
            /\ UNCHANGED <<ultima_posicao_valida, aceitos, filtrado>>
            /\ desde_aceite' = desde_aceite \cup {evento'.pos}
            /\ NadaEscrito]_vars

\* C19 witness: since the last accepted frame two different positions were
\* rejected that lie within the threshold of each other, the later one when a
\* sample was due
C19_Witness ==
    /\ pc = "loop"
    /\ evento.tipo = "rejeitado"
    /\ relogio >= proximo_tempo_gravacao
    /\ \E a \in desde_aceite, b \in desde_aceite :
          /\ a # b
          /\ DistQuadrada(a, b) <= LIMITE_SALTO * LIMITE_SALTO

\* C20: with a clock that never goes back, the first accepted frame of a run
\* is logged in the iteration that accepts it, as P_1 with its own position,
\* and any two consecutive sample rows of a run are at least one interval
\* apart: samples missed earlier are never made up in a burst.
C20_PrimeiroAceitoGravadoSemRajada ==
    /\ []((pc # "parado" /\ aceitos # <<>>) =>
            /\ gravados # <<>>
            /\ gravados[1].id = <<"P_", 1>>
            /\ gravados[1].x = 100 * aceitos[1][1]
            /\ gravados[1].y = 100 * aceitos[1][2]
            /\ gravados[1].z = 100 * aceitos[1][3])
    /\ [](\A k \in 1 .. Len(gravados) - 1 :
            gravados[k + 1].hora >= gravados[k].hora + INTERVALO_GRAVACAO)
    /\ [][(pc = "loop" /\ aceitos = <<>> /\ aceitos' # <<>>) =>
            (UmaAmostraEscrita /\ evento'.gravou)]_vars

\* C20 witness: a run accepted two frames and logged both, the second exactly
\* one interval after the first
C20_Witness ==
    /\ Len(gravados) = 2
    /\ Len(aceitos) = 2
    /\ gravados[2].hora = gravados[1].hora + INTERVALO_GRAVACAO

===========================================================================
